---- MODULE Spec2Model ----
(***************************************************************************)
(* A model of repogenerator (src/main.go): the extraction of Structures    *)
(* from the declarations of a parsed Go file, the four CRUD synthesizers,  *)
(* the file renderer, and main's scan-then-generate pipeline.              *)
(*                                                                         *)
(* Go strings are TLA+ strings; Len, \o and SubSeq act on them as on       *)
(* sequences of characters.                                                *)
(***************************************************************************)
EXTENDS Integers, Sequences, FiniteSets, TLC

VARIABLES
    arg,        \* what args[0] names: "file" or "directory"
    decls,      \* the top-level declarations of the file args[0] names
    pc,         \* main's position: "parse", "print", "scan", "generate",
                \* "done", "panic"
    i,          \* index of the next element of the loop main is in
    structures, \* main's structures slice
    generator,  \* the Generator value of the latest Generate call
    files,      \* the file system under repository/: path -> content
    writes,     \* every os.WriteFile call so far, in order
    fault,      \* why the run panicked, "none" while it has not
    run,        \* which run of the program on this input this is
    method,     \* the Method returned by the latest synthesizer call
    called,     \* which synthesizer produced method
    outcome     \* what the emitted exec-style body returned to its caller

vars == <<arg, decls, pc, i, structures, generator, files, writes, fault, run,
          method, called, outcome>>

(***************************************************************************)
(* Bounds of the model.                                                    *)
(***************************************************************************)
MaxDecls == 3
MaxFields == 2
MaxRows == 2
MaxCuts == 1

(***************************************************************************)
(* The functions of package strings and strconv that the program calls.    *)
(***************************************************************************)
Char(s, k) == SubSeq(s, k, k)

HasSuffix(s, suffix) ==
    /\ Len(s) >= Len(suffix)
    /\ SubSeq(s, Len(s) - Len(suffix) + 1, Len(s)) = suffix

HasPrefixAt(s, k, prefix) ==
    /\ k + Len(prefix) - 1 <= Len(s)
    /\ SubSeq(s, k, k + Len(prefix) - 1) = prefix

\* strings.TrimSuffix: s without the trailing suffix, if it ends with it.
TrimSuffix(s, suffix) ==
    IF HasSuffix(s, suffix) THEN SubSeq(s, 1, Len(s) - Len(suffix)) ELSE s

InCutset(c, cutset) == \E k \in 1..Len(cutset) : Char(cutset, k) = c

\* strings.TrimRight: s without every trailing character that is in cutset.
RECURSIVE TrimRight(_, _)
TrimRight(s, cutset) ==
    IF Len(s) > 0 /\ InCutset(Char(s, Len(s)), cutset)
    THEN TrimRight(SubSeq(s, 1, Len(s) - 1), cutset)
    ELSE s

\* strings.Index from position k on: where sub first starts, 0 if nowhere.
Find(s, k, sub) ==
    LET hits == {j \in k..Len(s) : HasPrefixAt(s, j, sub)}
    IN  IF hits = {} THEN 0
        ELSE CHOOSE j \in hits : \A m \in hits : j <= m

Contains(s, sub) == Find(s, 1, sub) > 0

\* strings.ReplaceAll for a non-empty old: non-overlapping, left to right.
RECURSIVE ReplaceFrom(_, _, _, _)
ReplaceFrom(s, k, old, new) ==
    LET at == Find(s, k, old)
    IN  IF at = 0 THEN SubSeq(s, k, Len(s))
        ELSE SubSeq(s, k, at - 1) \o new
             \o ReplaceFrom(s, at + Len(old), old, new)

ReplaceAll(s, old, new) == ReplaceFrom(s, 1, old, new)

\* strings.Split for a non-empty sep: the substrings between the separators,
\* one more than there are separators (so Split("", sep) is <<"">>).
RECURSIVE SplitFrom(_, _, _)
SplitFrom(s, k, sep) ==
    LET at == Find(s, k, sep)
    IN  IF at = 0 THEN <<SubSeq(s, k, Len(s))>>
        ELSE <<SubSeq(s, k, at - 1)>> \o SplitFrom(s, at + Len(sep), sep)

Split(s, sep) == SplitFrom(s, 1, sep)

Digit(d) == Char("0123456789", d + 1)

\* strconv.Itoa (and fmt's %v of an int) for n >= 0.
RECURSIVE Itoa(_)
Itoa(n) == IF n < 10 THEN Digit(n) ELSE Itoa(n \div 10) \o Digit(n % 10)

(***************************************************************************)
(* getStructure: the Metadata Normalizer.                                  *)
(*                                                                         *)
(* An ast.Field is [names, typeKind, typeX, typeName, hasTag, tag]:        *)
(* typeKind is the dynamic type of v.Type ("Ident", "SelectorExpr",        *)
(* "StarExpr", ...), typeX the selector's package, tag the literal's text  *)
(* (v.Tag.Value, its back quotes included), hasTag whether v.Tag is non-nil.   *)
(* An ast.TypeSpec is [name, typeKind, fields].                            *)
(***************************************************************************)
\* The back quote that delimits a raw string literal.  A TLA+ string cannot
\* hold that character, so the model writes a tilde for it; no tag of the
\* model holds a tilde of its own.
BackQuote == "~"

\* lines 124-132: the tag literal split into tokens; nil without a tag.
TagsArr(v) ==
    IF v.hasTag
    THEN Split(ReplaceAll(ReplaceAll(ReplaceAll(TrimSuffix(v.tag, " "),
                                                BackQuote, ""),
                                     "\"", ""),
                          ":", " "),
               " ")
    ELSE <<>>

\* lines 134-136 read tagsArr[j+1] for every even offset j < len(tagsArr):
\* an odd length is an index out of range.
TagIndexPanics(v) == Len(TagsArr(v)) % 2 = 1

\* lines 133-136: later pairs overwrite earlier pairs with the same key.
RECURSIVE TagPairs(_, _)
TagPairs(tagsArr, n) ==
    IF n = 0 THEN <<>>
    ELSE (tagsArr[2 * n - 1] :> tagsArr[2 * n]) @@ TagPairs(tagsArr, n - 1)

TagMap(v) == TagPairs(TagsArr(v), Len(TagsArr(v)) \div 2)

\* field.tags[key]: a missing key reads as the empty string.
Tag(field, key) ==
    IF key \in DOMAIN field.tags THEN field.tags[key] ELSE ""

\* lines 138-145: the unchecked assertion to *ast.SelectorExpr.
TypeAssertPanics(v) == v.typeKind \notin {"Ident", "SelectorExpr"}

FieldType(v) ==
    IF v.typeKind = "Ident" THEN v.typeName
    ELSE v.typeX \o "." \o v.typeName

\* line 147: v.Names[0] of an embedded field.
NamesIndexPanics(v) == Len(v.names) = 0

\* lines 123-151 for one field, in the order the code runs them.
FieldFault(v) ==
    IF TagIndexPanics(v) THEN "tagIndex"
    ELSE IF TypeAssertPanics(v) THEN "fieldType"
    ELSE IF NamesIndexPanics(v) THEN "fieldName"
    ELSE "none"

RECURSIVE FirstFieldFault(_, _)
FirstFieldFault(list, k) ==
    IF k > Len(list) THEN "none"
    ELSE IF FieldFault(list[k]) # "none" THEN FieldFault(list[k])
    ELSE FirstFieldFault(list, k + 1)

\* The panic getStructure ends in, "none" when it returns.
getStructureFault(typeSpec) ==
    IF typeSpec.typeKind # "StructType" THEN "structType"
    ELSE FirstFieldFault(typeSpec.fields, 1)

getStructure(packageName, typeSpec) ==
    [packageName |-> packageName,
     tableName   |-> "testTable",
     name        |-> typeSpec.name,
     fields      |-> [k \in 1..Len(typeSpec.fields) |->
                        [Name |-> typeSpec.fields[k].names[1],
                         Type |-> FieldType(typeSpec.fields[k]),
                         tags |-> TagMap(typeSpec.fields[k])]]]

(***************************************************************************)
(* The Statement Assembler.                                                *)
(***************************************************************************)
\* generateExec without the RowsAffected check of lines 168-170.
generateExecNoRowsCheck(methodName, sqlRequest, insertingValueString) ==
    "\tctg, err := p.db.Exec(ctx, " \o sqlRequest \o ", "
        \o insertingValueString \o ")\n"
    \o "\tif err != nil {\n"
    \o "\t\treturn fmt.Errorf(\"" \o methodName \o " error: %w \", err)\n"
    \o "\t}\n\n"
    \o "\treturn nil"

generateExec(methodName, sqlRequest, insertingValueString) ==
    "\tctg, err := p.db.Exec(ctx, " \o sqlRequest \o ", "
        \o insertingValueString \o ")\n"
    \o "\tif err != nil {\n"
    \o "\t\treturn fmt.Errorf(\"" \o methodName \o " error: %w \", err)\n"
    \o "\t}\n"
    \o "\tif ctg.RowsAffected() == 0 {\n"
    \o "\t\treturn fmt.Errorf(\"" \o methodName
        \o " error: no rows affected\")\n"
    \o "\t}\n\n"
    \o "\treturn nil"

generateQueryRow(methodName, sqlRequest, whereValue, scanString) ==
    "\terr = p.db.QueryRow(ctx, " \o sqlRequest \o ", " \o whereValue
        \o ").Scan(" \o scanString \o ")\n"
    \o "\tif err != nil {\n"
    \o "\t\treturn nil, fmt.Errorf(\"" \o methodName
        \o " error: %w \", err)\n"
    \o "\t}\n\n"
    \o "\treturn element, nil"

(***************************************************************************)
(* The Operation Synthesizers.  Each loop is a recursion over the first k  *)
(* fields that yields the loop's variables after k iterations.             *)
(***************************************************************************)
IsPrimary(field) == Tag(field, "primary") = "true"

\* generateCreate, lines 198-207: the loop's variables after k iterations.
RECURSIVE CreateLoop(_, _)
CreateLoop(fields, k) ==
    IF k = 0
    THEN [valuesString |-> "", paramsString |-> "",
          insertingValueString |-> "", index |-> 1]
    ELSE LET acc == CreateLoop(fields, k - 1) IN
         [valuesString |->
              acc.valuesString \o "$" \o Itoa(acc.index) \o ", ",
          paramsString |->
              acc.paramsString \o Tag(fields[k], "column") \o ", ",
          insertingValueString |->
              acc.insertingValueString \o "data." \o fields[k].Name \o ", ",
          index |-> acc.index + 1]

generateCreate(structure) ==
    LET name == structure.name \o "Create"
        acc == CreateLoop(structure.fields, Len(structure.fields))
        valuesString == TrimRight(acc.valuesString, ", ")
        paramsString == TrimRight(acc.paramsString, ", ")
        insertingValueString == TrimRight(acc.insertingValueString, ", ")
        sqlRequest == "\"INSERT INTO " \o structure.tableName \o " ("
                      \o paramsString \o ") VALUES (" \o valuesString
                      \o ")\""
    IN  [name    |-> name,
         comment |-> "// " \o name \o " add new " \o structure.name
                     \o " to database",
         iParams |-> "ctx context.Context, data *" \o structure.packageName
                     \o "." \o structure.name,
         oParams |-> "err error",
         body    |-> generateExec(name, sqlRequest, insertingValueString)]

\* SelectLoop with index++ after the if statement, as generateUpdate has it:
\* every field advances the counter.
RECURSIVE SelectLoopSharedIndex(_, _)
SelectLoopSharedIndex(fields, k) ==
    IF k = 0
    THEN [iParams |-> "ctx context.Context, ", whereString |-> "",
          whereValue |-> "", paramsString |-> "", scanString |-> "",
          index |-> 1]
    ELSE LET acc == SelectLoopSharedIndex(fields, k - 1)
             field == fields[k]
             primary == IsPrimary(field)
         IN  [iParams |->
                  IF primary
                  THEN acc.iParams \o field.Name \o " " \o field.Type \o ", "
                  ELSE acc.iParams,
              whereValue |->
                  IF primary THEN acc.whereValue \o field.Name \o ", "
                  ELSE acc.whereValue,
              whereString |->
                  IF primary
                  THEN acc.whereString \o Tag(field, "column") \o " = $"
                       \o Itoa(acc.index) \o " AND "
                  ELSE acc.whereString,
              index |-> acc.index + 1,
              paramsString |->
                  acc.paramsString \o Tag(field, "column") \o ", ",
              scanString |->
                  acc.scanString \o "element." \o field.Name \o ", "]

\* generateSelect, lines 227-241: the loop's variables after k iterations.
RECURSIVE SelectLoop(_, _)
SelectLoop(fields, k) ==
    IF k = 0
    THEN [iParams |-> "ctx context.Context, ", whereString |-> "",
          whereValue |-> "", paramsString |-> "", scanString |-> "",
          index |-> 1]
    ELSE LET acc == SelectLoop(fields, k - 1)
             field == fields[k]
             primary == IsPrimary(field)
         IN  [iParams |->
                  IF primary
                  THEN acc.iParams \o field.Name \o " " \o field.Type \o ", "
                  ELSE acc.iParams,
              whereValue |->
                  IF primary THEN acc.whereValue \o field.Name \o ", "
                  ELSE acc.whereValue,
              whereString |->
                  IF primary
                  THEN acc.whereString \o Tag(field, "column") \o " = $"
                       \o Itoa(acc.index) \o " AND "
                  ELSE acc.whereString,
              index |-> IF primary THEN acc.index + 1 ELSE acc.index,
              paramsString |->
                  acc.paramsString \o Tag(field, "column") \o ", ",
              scanString |->
                  acc.scanString \o "element." \o field.Name \o ", "]

generateSelect(structure) ==
    LET name == structure.name \o "Select"
        acc == SelectLoop(structure.fields, Len(structure.fields))
        whereString == TrimRight(acc.whereString, "AND ")
        whereValue == TrimRight(acc.whereValue, ", ")
        paramsString == TrimSuffix(acc.paramsString, ", ")
        scanString == TrimSuffix(acc.scanString, ", ")
        sqlRequest == "\"SELECT (" \o paramsString \o ") FROM "
                      \o structure.tableName \o " WHERE (" \o whereString
                      \o ")\""
    IN  [name    |-> name,
         comment |-> "// " \o name \o " get " \o structure.name
                     \o " from database by pk",
         iParams |-> TrimRight(acc.iParams, ", "),
         oParams |-> "element *" \o structure.packageName \o "."
                     \o structure.name \o ", err error",
         body    |-> generateQueryRow(name, sqlRequest, whereValue,
                                      scanString)]

\* generateDelete, lines 263-273: the loop's variables after k iterations.
RECURSIVE DeleteLoop(_, _)
DeleteLoop(fields, k) ==
    IF k = 0
    THEN [iParams |-> "ctx context.Context, ", whereString |-> "",
          whereValue |-> "", index |-> 1]
    ELSE LET acc == DeleteLoop(fields, k - 1)
             field == fields[k]
         IN  IF IsPrimary(field)
             THEN [iParams |-> acc.iParams \o field.Name \o " "
                               \o field.Type \o ", ",
                   whereValue |-> acc.whereValue \o field.Name \o ", ",
                   whereString |-> acc.whereString \o Tag(field, "column")
                                   \o " = $" \o Itoa(acc.index) \o " AND ",
                   index |-> acc.index + 1]
             ELSE acc

generateDelete(structure) ==
    LET name == structure.name \o "Delete"
        acc == DeleteLoop(structure.fields, Len(structure.fields))
        whereString == TrimRight(acc.whereString, "AND ")
        whereValue == TrimRight(acc.whereValue, ", ")
        sqlRequest == "\"DELETE FROM " \o structure.tableName \o " WHERE ("
                      \o whereString \o ")\""
    IN  [name    |-> name,
         comment |-> "// " \o name \o " delete " \o structure.name
                     \o " from database by pk",
         iParams |-> TrimRight(acc.iParams, ", "),
         oParams |-> "err error",
         body    |-> generateExec(name, sqlRequest, whereValue)]

\* UpdateLoop with index++ moved into the else branch: a primary field no
\* longer advances the counter.
RECURSIVE UpdateLoopKeyNotCounted(_, _)
UpdateLoopKeyNotCounted(fields, k) ==
    IF k = 0
    THEN [whereString |-> "", paramsString |-> "", valueString |-> "",
          index |-> 1]
    ELSE LET acc == UpdateLoopKeyNotCounted(fields, k - 1)
             field == fields[k]
             term == Tag(field, "column") \o " = $" \o Itoa(acc.index)
         IN  [whereString |->
                  IF IsPrimary(field)
                  THEN acc.whereString \o term \o " AND "
                  ELSE acc.whereString,
              paramsString |->
                  IF IsPrimary(field)
                  THEN acc.paramsString
                  ELSE acc.paramsString \o term \o ", ",
              index |-> IF IsPrimary(field) THEN acc.index
                        ELSE acc.index + 1,
              valueString |->
                  acc.valueString \o "data." \o field.Name \o ", "]

\* generateUpdate, lines 293-305: the loop's variables after k iterations.
RECURSIVE UpdateLoop(_, _)
UpdateLoop(fields, k) ==
    IF k = 0
    THEN [whereString |-> "", paramsString |-> "", valueString |-> "",
          index |-> 1]
    ELSE LET acc == UpdateLoop(fields, k - 1)
             field == fields[k]
             term == Tag(field, "column") \o " = $" \o Itoa(acc.index)
         IN  [whereString |->
                  IF IsPrimary(field)
                  THEN acc.whereString \o term \o " AND "
                  ELSE acc.whereString,
              paramsString |->
                  IF IsPrimary(field)
                  THEN acc.paramsString
                  ELSE acc.paramsString \o term \o ", ",
              index |-> acc.index + 1,
              valueString |->
                  acc.valueString \o "data." \o field.Name \o ", "]

generateUpdate(structure) ==
    LET name == structure.name \o "Update"
        acc == UpdateLoop(structure.fields, Len(structure.fields))
        whereString == TrimRight(acc.whereString, "AND ")
        paramsString == TrimRight(acc.paramsString, ", ")
        valueString == TrimRight(acc.valueString, ", ")
        sqlRequest == "\"UPDATE " \o structure.tableName \o " SET ("
                      \o paramsString \o ") WHERE (" \o whereString
                      \o ")\""
    IN  [name    |-> name,
         comment |-> "// " \o name \o " update " \o structure.name
                     \o " in database by pk",
         iParams |-> "ctx context.Context, data *" \o structure.packageName
                     \o "." \o structure.name,
         oParams |-> "err error",
         body    |-> generateExec(name, sqlRequest, valueString)]

(***************************************************************************)
(* The code the Statement Assembler emits, run against a driver.           *)
(*                                                                         *)
(* RunBody executes the statements of an exec-style body, line by line,    *)
(* for one answer of p.db.Exec: driverErr says whether err is non-nil,     *)
(* rows is what ctg.RowsAffected() reports.  It returns what the method    *)
(* returns: returned is "nil", "error" or "none" (the body ended without   *)
(* a return), msg the format string of the error, wraps whether the error  *)
(* wraps the driver's (a %w verb fed with err), consulted whether          *)
(* RowsAffected was called on the way.                                     *)
(***************************************************************************)
ErrorfOpen == "\t\treturn fmt.Errorf(\""

\* The line after the one that closes the if statement opened before line k.
RECURSIVE AfterBlock(_, _)
AfterBlock(lines, k) ==
    IF k > Len(lines) THEN k
    ELSE IF lines[k] = "\t}" THEN k + 1
    ELSE AfterBlock(lines, k + 1)

RECURSIVE RunBody(_, _, _, _, _)
RunBody(lines, k, driverErr, rows, consulted) ==
    IF k > Len(lines)
    THEN [returned |-> "none", msg |-> "", wraps |-> FALSE,
          consulted |-> consulted]
    ELSE LET line == lines[k] IN
    IF line = "\tif err != nil {"
    THEN IF driverErr
         THEN RunBody(lines, k + 1, driverErr, rows, consulted)
         ELSE RunBody(lines, AfterBlock(lines, k + 1), driverErr, rows,
                      consulted)
    ELSE IF line = "\tif ctg.RowsAffected() == 0 {"
    THEN IF rows = 0
         THEN RunBody(lines, k + 1, driverErr, rows, TRUE)
         ELSE RunBody(lines, AfterBlock(lines, k + 1), driverErr, rows, TRUE)
    ELSE IF HasPrefixAt(line, 1, ErrorfOpen)
    THEN LET from == Len(ErrorfOpen) + 1
             to == Find(line, from, "\"")
             msg == SubSeq(line, from, to - 1)
         IN  [returned |-> "error", msg |-> msg,
              wraps |-> Contains(msg, "%w") /\ HasSuffix(line, ", err)"),
              consulted |-> consulted]
    ELSE IF line = "\treturn nil"
    THEN [returned |-> "nil", msg |-> "", wraps |-> FALSE,
          consulted |-> consulted]
    ELSE RunBody(lines, k + 1, driverErr, rows, consulted)

RunExecBody(body, driverErr, rows) ==
    RunBody(Split(body, "\n"), 1, driverErr, rows, FALSE)

(***************************************************************************)
(* The File Renderer.                                                      *)
(***************************************************************************)
header ==
    "// code generated automatically\n"
    \o "// can be edited by hand if needed\n"
    \o "\n"
    \o "// Package repository contains the repository layer of the application.\n"
    \o "// generate this file by running: go generate repository_generator -path 'path to file holding struct' -entity 'name of struct'\n"
    \o "package repository"

\* The zero Structure and the zero Generator.
NoStructure ==
    [packageName |-> "", tableName |-> "", name |-> "", fields |-> <<>>]

NoGenerator ==
    [filePath |-> "", header |-> "", imports |-> <<>>,
     structure |-> NoStructure, methods |-> <<>>, data |-> ""]

\* Generate reusing one Generator for every structure instead of building a
\* new one: imports, methods and buffer of the call before are kept.
NewGeneratorReused(structure) ==
    [generator EXCEPT
        !.filePath = "repository/" \o structure.name \o "_repository.go",
        !.structure = structure]

\* Generate, lines 317-321: the Generator literal.
NewGenerator(structure) ==
    [filePath  |-> "repository/" \o structure.name \o "_repository.go",
     header    |-> "",
     imports   |-> <<>>,
     structure |-> structure,
     methods   |-> <<>>,
     data      |-> ""]

AddHeader(g, h) == [g EXCEPT !.header = h]

AddImport(g, packageName) ==
    [g EXCEPT !.imports = Append(@, packageName)]

AddMethod(g, m) == [g EXCEPT !.methods = Append(@, m)]

\* GenerateFile, lines 373-375.
RECURSIVE ImportLines(_, _)
ImportLines(imports, k) ==
    IF k = 0 THEN ""
    ELSE ImportLines(imports, k - 1) \o "\t\"" \o imports[k] \o "\"\n"

\* GenerateFile, lines 382-384.
RECURSIVE InterfaceLines(_, _)
InterfaceLines(methods, k) ==
    IF k = 0 THEN ""
    ELSE InterfaceLines(methods, k - 1)
         \o "\t" \o methods[k].name \o "(" \o methods[k].iParams \o ") ("
         \o methods[k].oParams \o ")\n"

\* GenerateFile, lines 398-403.
RECURSIVE MethodBlocks(_, _)
MethodBlocks(methods, k) ==
    IF k = 0 THEN ""
    ELSE MethodBlocks(methods, k - 1)
         \o methods[k].comment \o "\n"
         \o "func (p *PostgresRepository) " \o methods[k].name \o "("
         \o methods[k].iParams \o ") (" \o methods[k].oParams \o "){\n"
         \o methods[k].body \o "\n"
         \o "}\n\n"

\* GenerateFile up to the call of os.WriteFile: what the buffer holds then.
GenerateFile(g) ==
    [g EXCEPT !.data =
        @ \o g.header \o "\n" \o "\n"
        \o "import (\n" \o ImportLines(g.imports, Len(g.imports)) \o ")\n"
        \o "\n"
        \o "// " \o g.structure.name
        \o "Manager interface to interact with database\n"
        \o "type " \o g.structure.name \o "Manager interface {\n"
        \o InterfaceLines(g.methods, Len(g.methods))
        \o "}\n" \o "\n"
        \o MethodBlocks(g.methods, Len(g.methods))]

\* Generate with the update method added before the select method.
GenerateUpdateFirst(structure) ==
    GenerateFile(
      AddMethod(
        AddMethod(
          AddMethod(
            AddMethod(
              AddImport(
                AddImport(AddHeader(NewGenerator(structure), header),
                          "context"),
                "fmt"),
              generateCreate(structure)),
            generateUpdate(structure)),
          generateSelect(structure)),
        generateDelete(structure)))

\* Generate up to the call of os.WriteFile.
Generate(structure) ==
    GenerateFile(
      AddMethod(
        AddMethod(
          AddMethod(
            AddMethod(
              AddImport(
                AddImport(AddHeader(NewGenerator(structure), header),
                          "context"),
                "fmt"),
              generateCreate(structure)),
            generateSelect(structure)),
          generateUpdate(structure)),
        generateDelete(structure)))

\* os.WriteFile(name, data, 0666) when it succeeds: the file is created or
\* truncated, then holds data.
WriteFile(fs, name, data) == (name :> data) @@ fs

\* os.WriteFile(name, data, 0666) when it returns an error.  Either the open
\* failed and nothing changed, or the file was created or truncated and the
\* first n bytes of data reached it before the failure, 0 <= n <= Len(data):
\* none when the write failed at once, a proper prefix when it failed part
\* way, all of data when only the close failed.
WriteFileFailed(fs, name, data, opened, n) ==
    IF opened THEN (name :> SubSeq(data, 1, n)) @@ fs ELSE fs

\* How many bytes had reached the file when a write of data failed: the
\* points the model draws from 0..Len(data), both ends and MaxCuts evenly
\* spaced points between them.
WrittenBytes(data) ==
    {0, Len(data)}
    \cup {(k * Len(data)) \div (MaxCuts + 1) : k \in 1..MaxCuts}

(***************************************************************************)
(* The inputs: fields, type specs and declarations as go/parser yields     *)
(* them.                                                                   *)
(***************************************************************************)
RawTag(text) == BackQuote \o text \o BackQuote

IdentField(name, type, tag) ==
    [names |-> <<name>>, typeKind |-> "Ident", typeX |-> "",
     typeName |-> type, hasTag |-> TRUE, tag |-> RawTag(tag)]

\* ID int64 `column:"id" primary:"true"`
fID == IdentField("ID", "int64", "column:\"id\" primary:\"true\"")
\* Name string `column:"name"`
fName == IdentField("Name", "string", "column:\"name\"")
\* At time.Time `primary:"true" column:"at"`
fAt ==
    [names |-> <<"At">>, typeKind |-> "SelectorExpr", typeX |-> "time",
     typeName |-> "Time", hasTag |-> TRUE,
     tag |-> RawTag("primary:\"true\" column:\"at\"")]
\* Note string
fNote ==
    [names |-> <<"Note">>, typeKind |-> "Ident", typeX |-> "",
     typeName |-> "string", hasTag |-> FALSE, tag |-> ""]
\* Flag bool `primary:"true"`
fFlag == IdentField("Flag", "bool", "primary:\"true\"")
\* Opt string `column:"opt" primary:"false"`
fOpt == IdentField("Opt", "string", "column:\"opt\" primary:\"false\"")
\* Raw string `column:"raw,"`
fRaw == IdentField("Raw", "string", "column:\"raw,\"")
\* Desc string `column:"long text" primary:"true" size:"8 9"`: eight tokens,
\* the pairs out of step after the first embedded space.
fDesc ==
    IdentField("Desc", "string",
               "column:\"long text\" primary:\"true\" size:\"8 9\"")
\* Title string `column:"my title"`: three tokens.
fTitle == IdentField("Title", "string", "column:\"my title\"")
\* Next *Node `column:"next"`
fNext ==
    [names |-> <<"Next">>, typeKind |-> "StarExpr", typeX |-> "",
     typeName |-> "Node", hasTag |-> TRUE, tag |-> RawTag("column:\"next\"")]

\* The fields getStructure accepts.
FieldPool == {fID, fName, fAt, fNote, fFlag, fOpt, fRaw, fDesc}

SeqsUpTo(S, n) == UNION {[1..m -> S] : m \in 0..n}

StructSpec(name, fields) ==
    [name |-> name, typeKind |-> "StructType", fields |-> fields]

TypeDecl(specs) == [node |-> "GenDecl", tok |-> "type", specs |-> specs]

\* type User struct { ID ...; Name ... }
dUser == TypeDecl(<<StructSpec("User", <<fID, fName>>)>>)
\* type ( Event struct { At ...; Note string }; Count int )
dGroup ==
    TypeDecl(<<StructSpec("Event", <<fAt, fNote>>),
               [name |-> "Count", typeKind |-> "Ident", fields |-> <<>>]>>)
\* type Alias int
dAlias ==
    TypeDecl(<<[name |-> "Alias", typeKind |-> "Ident", fields |-> <<>>]>>)
\* type ()
dEmpty == TypeDecl(<<>>)
\* type Node struct { ID ...; Next *Node ... }
dNode == TypeDecl(<<StructSpec("Node", <<fID, fNext>>)>>)
\* type Book struct { ID ...; Title ... }
dBook == TypeDecl(<<StructSpec("Book", <<fID, fTitle>>)>>)
\* import "fmt"
dImport == [node |-> "GenDecl", tok |-> "import", specs |-> <<>>]
\* var x int
dVar == [node |-> "GenDecl", tok |-> "var", specs |-> <<>>]
\* func f() {}
dFunc == [node |-> "FuncDecl", tok |-> "func", specs |-> <<>>]

\* a declaration that is a syntax error: the parser reports it and puts an
\* ast.BadDecl in its place
dBad == [node |-> "BadDecl", tok |-> "illegal", specs |-> <<>>]

DeclPool ==
    {dUser, dGroup, dAlias, dEmpty, dNode, dBook, dImport, dVar, dFunc, dBad}

NoMethod ==
    [name |-> "", comment |-> "", iParams |-> "", oParams |-> "",
     body |-> ""]

NoOutcome ==
    [ran |-> FALSE, driverErr |-> FALSE, rows |-> 0, returned |-> "none",
     msg |-> "", wraps |-> FALSE, consulted |-> FALSE]

(***************************************************************************)
(* main: the scan of the declarations, then the generation loop.           *)
(***************************************************************************)
Init ==
    /\ \/ arg = "file" /\ decls \in SeqsUpTo(DeclPool, MaxDecls)
       \/ arg = "directory" /\ decls = <<>>
    /\ pc = "parse"
    /\ i = 1
    /\ structures = <<>>
    /\ generator = NoGenerator
    /\ files = <<>>
    /\ writes = <<>>
    /\ fault = "none"
    /\ run = 1
    /\ method = NoMethod
    /\ called = "none"
    /\ outcome = NoOutcome

\* f.Name.Name of the parsed file.
packageName == "model"

\* lines 65-67: whether parser.ParseFile returns an error.  It does when
\* args[0] is not a file it can read (a directory, the default "." too),
\* when a declaration is a syntax error, and when an import declaration
\* follows a declaration that is no import.
ParseFileFails ==
    \/ arg # "file"
    \/ \E d \in 1..Len(decls) : decls[d].node = "BadDecl"
    \/ \E d \in 1..Len(decls) :
           /\ decls[d].tok = "import"
           /\ \E e \in 1..(d - 1) : decls[e].tok # "import"

\* lines 65-71 when the file parses: main goes on to print the syntax
\* tree.
ParseOk ==
    /\ pc = "parse"
    /\ ~ParseFileFails
    /\ pc' = "print"
    /\ UNCHANGED <<arg, decls, i, structures, generator, files, writes,
                   fault, run, method, called, outcome>>

\* lines 72-77 when ast.Print returns nil: the tree went to standard output
\* and main goes on to its first loop.
PrintOk ==
    /\ pc = "print"
    /\ pc' = "scan"
    /\ UNCHANGED <<arg, decls, i, structures, generator, files, writes,
                   fault, run, method, called, outcome>>

\* lines 72-75 when ast.Print returns an error, a write to standard output
\* having failed: main panics.
PrintPanic ==
    /\ pc = "print"
    /\ pc' = "panic"
    /\ fault' = "print"
    /\ UNCHANGED <<arg, decls, i, structures, generator, files, writes,
                   run, method, called, outcome>>

\* lines 65-69 when parser.ParseFile returns an error: main panics.
ParsePanic ==
    /\ pc = "parse"
    /\ ParseFileFails
    /\ pc' = "panic"
    /\ fault' = "parse"
    /\ UNCHANGED <<arg, decls, i, structures, generator, files, writes,
                   run, method, called, outcome>>

\* The panic one iteration of the loop of lines 78-84 ends in, "none" when
\* it completes.
DeclFault(v) ==
    IF v.node # "GenDecl" THEN "declAssert"
    ELSE IF v.tok # "type" THEN "none"
    ELSE IF Len(v.specs) = 0 THEN "specIndex"
    ELSE getStructureFault(v.specs[1])

\* One call of os.WriteFile, as the log of writes keeps it.
WriteRecord(g, ok) ==
    [run |-> run, idx |-> i, structure |-> g.structure,
     path |-> g.filePath, data |-> g.data, ok |-> ok]

\* main with Generate called inside the first loop, right after
\* getStructure, instead of in a second loop.
ScanTypeEager ==
    /\ pc = "scan"
    /\ i <= Len(decls)
    /\ DeclFault(decls[i]) = "none"
    /\ decls[i].tok = "type"
    /\ structures' =
           Append(structures, getStructure(packageName, decls[i].specs[1]))
    /\ generator' = Generate(structures'[Len(structures')])
    /\ files' = WriteFile(files, generator'.filePath, generator'.data)
    /\ writes' = Append(writes, WriteRecord(generator', TRUE))
    /\ i' = i + 1
    /\ UNCHANGED <<arg, decls, pc, fault, run, method, called, outcome>>

\* lines 78-82 for a type declaration getStructure accepts.
ScanType ==
    /\ pc = "scan"
    /\ i <= Len(decls)
    /\ DeclFault(decls[i]) = "none"
    /\ decls[i].tok = "type"
    /\ structures' =
           Append(structures, getStructure(packageName, decls[i].specs[1]))
    /\ i' = i + 1
    /\ UNCHANGED <<arg, decls, pc, generator, files, writes, fault, run, method,
                   called, outcome>>

\* lines 78-84 for a general declaration that is no type declaration.
ScanSkip ==
    /\ pc = "scan"
    /\ i <= Len(decls)
    /\ DeclFault(decls[i]) = "none"
    /\ decls[i].tok # "type"
    /\ i' = i + 1
    /\ UNCHANGED <<arg, decls, pc, structures, generator, files, writes, fault,
                   run, method, called, outcome>>

\* lines 78-82 when a type assertion or an index expression panics.
ScanPanic ==
    /\ pc = "scan"
    /\ i <= Len(decls)
    /\ DeclFault(decls[i]) # "none"
    /\ pc' = "panic"
    /\ fault' = DeclFault(decls[i])
    /\ UNCHANGED <<arg, decls, i, structures, generator, files, writes, run,
                   method, called, outcome>>

\* line 84 to line 86: the first loop is over, the second begins.
ScanEnd ==
    /\ pc = "scan"
    /\ i > Len(decls)
    /\ pc' = "generate"
    /\ i' = 1
    /\ UNCHANGED <<arg, decls, structures, generator, files, writes, fault, run,
                   method, called, outcome>>

\* lines 86-91 when Generate returns nil: os.WriteFile succeeded.
GenerateOk ==
    /\ pc = "generate"
    /\ i <= Len(structures)
    /\ generator' = Generate(structures[i])
    /\ files' = WriteFile(files, generator'.filePath, generator'.data)
    /\ writes' = Append(writes, WriteRecord(generator', TRUE))
    /\ i' = i + 1
    /\ UNCHANGED <<arg, decls, pc, structures, fault, run, method, called,
                   outcome>>

\* main dropping Generate's error: the loop goes on to the next structure.
GenerateFailIgnored ==
    /\ pc = "generate"
    /\ i <= Len(structures)
    /\ generator' = Generate(structures[i])
    /\ \E opened \in BOOLEAN, n \in WrittenBytes(generator'.data) :
           files' = WriteFileFailed(files, generator'.filePath,
                                    generator'.data, opened, n)
    /\ writes' = Append(writes, WriteRecord(generator', FALSE))
    /\ i' = i + 1
    /\ UNCHANGED <<arg, decls, pc, structures, fault, run, method, called,
                   outcome>>

\* lines 86-91 when Generate returns os.WriteFile's error: main panics.
GenerateFail ==
    /\ pc = "generate"
    /\ i <= Len(structures)
    /\ generator' = Generate(structures[i])
    /\ \E opened \in BOOLEAN, n \in WrittenBytes(generator'.data) :
           files' = WriteFileFailed(files, generator'.filePath,
                                    generator'.data, opened, n)
    /\ writes' = Append(writes, WriteRecord(generator', FALSE))
    /\ pc' = "panic"
    /\ fault' = "write"
    /\ UNCHANGED <<arg, decls, i, structures, run, method, called, outcome>>

\* line 91 to line 93: main returns.
GenerateEnd ==
    /\ pc = "generate"
    /\ i > Len(structures)
    /\ pc' = "done"
    /\ UNCHANGED <<arg, decls, i, structures, generator, files, writes, fault,
                   run, method, called, outcome>>

\* The program is run a second time on the same file; what the first run
\* wrote is still on disk.
Rerun ==
    /\ pc \in {"done", "panic"}
    /\ run = 1
    /\ run' = run + 1
    /\ pc' = "parse"
    /\ i' = 1
    /\ structures' = <<>>
    /\ generator' = NoGenerator
    /\ fault' = "none"
    /\ UNCHANGED <<arg, decls, files, writes, method, called, outcome>>

Next ==
    \/ ParseOk
    \/ ParsePanic
    \/ PrintOk
    \/ PrintPanic
    \/ ScanType
    \/ ScanSkip
    \/ ScanPanic
    \/ ScanEnd
    \/ GenerateOk
    \/ GenerateFail
    \/ GenerateEnd
    \/ Rerun

Spec == Init /\ [][Next]_vars

(***************************************************************************)
(* The synthesizers and the emitted exec body as pure functions: one       *)
(* Structure, drawn from the type specs getStructure accepts, and the      *)
(* calls on it.                                                            *)
(***************************************************************************)
InitSynth ==
    /\ arg = "file"
    /\ decls = <<>>
    /\ pc = "synth"
    /\ i = 1
    /\ \E fields \in SeqsUpTo(FieldPool, MaxFields) :
           /\ getStructureFault(StructSpec("User", fields)) = "none"
           /\ structures =
                  <<getStructure(packageName, StructSpec("User", fields))>>
    /\ generator = NoGenerator
    /\ files = <<>>
    /\ writes = <<>>
    /\ fault = "none"
    /\ run = 1
    /\ method = NoMethod
    /\ called = "none"
    /\ outcome = NoOutcome

CallCreate ==
    /\ pc = "synth"
    /\ called = "none"
    /\ method' = generateCreate(structures[1])
    /\ called' = "Create"
    /\ outcome' = NoOutcome
    /\ UNCHANGED <<arg, decls, pc, i, structures, generator, files, writes,
                   fault, run>>

CallSelect ==
    /\ pc = "synth"
    /\ called = "none"
    /\ method' = generateSelect(structures[1])
    /\ called' = "Select"
    /\ outcome' = NoOutcome
    /\ UNCHANGED <<arg, decls, pc, i, structures, generator, files, writes,
                   fault, run>>

CallUpdate ==
    /\ pc = "synth"
    /\ called = "none"
    /\ method' = generateUpdate(structures[1])
    /\ called' = "Update"
    /\ outcome' = NoOutcome
    /\ UNCHANGED <<arg, decls, pc, i, structures, generator, files, writes,
                   fault, run>>

CallDelete ==
    /\ pc = "synth"
    /\ called = "none"
    /\ method' = generateDelete(structures[1])
    /\ called' = "Delete"
    /\ outcome' = NoOutcome
    /\ UNCHANGED <<arg, decls, pc, i, structures, generator, files, writes,
                   fault, run>>

\* The emitted method is called and p.db.Exec answers.
RunEmitted ==
    /\ pc = "synth"
    /\ called \in {"Create", "Update", "Delete"}
    /\ ~outcome.ran
    /\ \E driverErr \in BOOLEAN, rows \in 0..MaxRows :
           outcome' = [ran |-> TRUE, driverErr |-> driverErr, rows |-> rows]
                      @@ RunExecBody(method.body, driverErr, rows)
    /\ UNCHANGED <<arg, decls, pc, i, structures, generator, files, writes,
                   fault, run, method, called>>

NextSynth ==
    \/ CallCreate
    \/ CallSelect
    \/ CallUpdate
    \/ CallDelete
    \/ RunEmitted

SpecSynth == InitSynth /\ [][NextSynth]_vars

(***************************************************************************)
(* The properties.  What a statement should hold is written here from the  *)
(* structure alone, with Join over the lists it names, and compared with   *)
(* the text the synthesizers produced.                                     *)
(***************************************************************************)
RECURSIVE Join(_, _)
Join(seq, sep) ==
    IF Len(seq) = 0 THEN ""
    ELSE IF Len(seq) = 1 THEN seq[1]
    ELSE Join(SubSeq(seq, 1, Len(seq) - 1), sep) \o sep \o seq[Len(seq)]

\* The text of s between the first open and the next close after it.
Between(s, open, close) ==
    LET from == Find(s, 1, open) + Len(open)
    IN  SubSeq(s, from, Find(s, from, close) - 1)

FirstLine(body) == Split(body, "\n")[1]

\* A field is part of the key exactly when its primary tag is "true".
IsKey(field) ==
    "primary" \in DOMAIN field.tags /\ field.tags["primary"] = "true"

\* The raw column tag of a field, empty when the field has none.
Column(field) ==
    IF "column" \in DOMAIN field.tags THEN field.tags["column"] ELSE ""

\* The positions of the key fields among the first k, in declaration order.
RECURSIVE KeyIdx(_, _)
KeyIdx(fields, k) ==
    IF k = 0 THEN <<>>
    ELSE IF IsKey(fields[k]) THEN Append(KeyIdx(fields, k - 1), k)
    ELSE KeyIdx(fields, k - 1)

RECURSIVE NonKeyIdx(_, _)
NonKeyIdx(fields, k) ==
    IF k = 0 THEN <<>>
    ELSE IF IsKey(fields[k]) THEN NonKeyIdx(fields, k - 1)
    ELSE Append(NonKeyIdx(fields, k - 1), k)

Placeholder(n) == "$" \o Itoa(n)

\* The value list of an exec call: what follows the statement's closing quote.
ExecValues(line) == Between(line, ")\", ", ")")

\* C1: generateUpdate gives field Fi the placeholder $i; the SET clause is
\* the comma-joined "<column> = $i" of the non-key fields, the WHERE clause
\* the AND-joined "<column> = $i" of the key fields, so that SET and WHERE
\* together use 1..n once each; the value list is data.F1 .. data.Fn.
C1_UpdateSharedNumbering ==
    called = "Update" =>
        LET f == structures[1].fields
            n == Len(f)
            line == FirstLine(method.body)
            key == KeyIdx(f, n)
            non == NonKeyIdx(f, n)
        IN  /\ Between(line, " SET (", ") WHERE (")
                 = Join([j \in 1..Len(non) |->
                            Column(f[non[j]]) \o " = " \o Placeholder(non[j])],
                        ", ")
            /\ Between(line, ") WHERE (", ")\", ")
                 = Join([j \in 1..Len(key) |->
                            Column(f[key[j]]) \o " = " \o Placeholder(key[j])],
                        " AND ")
            /\ ExecValues(line)
                 = Join([k \in 1..n |-> "data." \o f[k].Name], ", ")

\* An update of a structure whose second field is the key and whose first is
\* not: the key's predicate is numbered $2.
C1_Witness ==
    /\ called = "Update"
    /\ Len(structures[1].fields) >= 2
    /\ ~IsKey(structures[1].fields[1])
    /\ IsKey(structures[1].fields[2])
    /\ Contains(method.body, " = $2)\"")

\* C2: generateSelect and generateDelete: with key fields P1..Pk, the WHERE
\* clause is the AND-joined "<column of Pj> = $j", j = 1..k, the input
\* parameters after ctx are "Pj <type of Pj>" and the values passed to the
\* query or exec call are P1..Pk, all in declaration order; no other field
\* appears in any of the three.
C2_KeyOnlyWhere ==
    called \in {"Select", "Delete"} =>
        LET f == structures[1].fields
            key == KeyIdx(f, Len(f))
            line == FirstLine(method.body)
            values == IF called = "Select"
                      THEN Between(line, ")\", ", ").Scan(")
                      ELSE ExecValues(line)
        IN  /\ Between(line, " WHERE (", ")\", ")
                 = Join([j \in 1..Len(key) |->
                            Column(f[key[j]]) \o " = " \o Placeholder(j)],
                        " AND ")
            /\ method.iParams
                 = Join(<<"ctx context.Context">>
                        \o [j \in 1..Len(key) |->
                              f[key[j]].Name \o " " \o f[key[j]].Type],
                        ", ")
            /\ values = Join([j \in 1..Len(key) |-> f[key[j]].Name], ", ")

\* A select or delete of a structure whose only key field is its second
\* field: its predicate is numbered $1.
C2_Witness ==
    /\ called \in {"Select", "Delete"}
    /\ Len(structures[1].fields) >= 2
    /\ ~IsKey(structures[1].fields[1])
    /\ IsKey(structures[1].fields[2])
    /\ Contains(method.body, " = $1)\"")

\* C3: generateCreate on a structure with n >= 1 fields emits three lists of
\* n entries each, in declaration order: the placeholders $1..$n, the raw
\* column tags (also an absent or empty one) and data.F1 .. data.Fn.
C3_CreateParallelLists ==
    (called = "Create" /\ Len(structures[1].fields) >= 1) =>
        LET f == structures[1].fields
            n == Len(f)
            line == FirstLine(method.body)
        IN  /\ Between(line, ") VALUES (", ")\", ")
                 = Join([k \in 1..n |-> Placeholder(k)], ", ")
            /\ Between(line, "INSERT INTO testTable (", ") VALUES (")
                 = Join([k \in 1..n |-> Column(f[k])], ", ")
            /\ ExecValues(line)
                 = Join([k \in 1..n |-> "data." \o f[k].Name], ", ")

\* C4: the emitted exec body: a driver error is returned wrapped under the
\* method's name without RowsAffected being asked; no driver error and no
\* row affected is the error "<Method> error: no rows affected"; nil is
\* returned only without driver error and with a row affected.
C4_ExecOutcomes ==
    outcome.ran =>
        /\ outcome.driverErr =>
               /\ outcome.returned = "error"
               /\ outcome.wraps
               /\ HasPrefixAt(outcome.msg, 1, method.name \o " error")
               /\ ~outcome.consulted
        /\ (~outcome.driverErr /\ outcome.rows = 0) =>
               /\ outcome.returned = "error"
               /\ ~outcome.wraps
               /\ outcome.msg = method.name \o " error: no rows affected"
        /\ (~outcome.driverErr /\ outcome.rows > 0) =>
               outcome.returned = "nil"
        /\ outcome.returned = "nil" =>
               (~outcome.driverErr /\ outcome.rows > 0)

\* The driver reported no error and no row, and the method returned an error.
C4_Witness ==
    /\ outcome.ran
    /\ ~outcome.driverErr
    /\ outcome.rows = 0
    /\ outcome.returned = "error"

Signature(m) == m.name \o "(" \o m.iParams \o ") (" \o m.oParams \o ")"

\* C5: the rendered text is the header, a blank line, the import block with
\* context then fmt, a blank line, the interface <Type>Manager with the four
\* signatures in the order Create, Select, Update, Delete, then the four
\* implementations in that order, each under the signature of its interface
\* entry.
C5_OutputOrder ==
    generator # NoGenerator =>
        LET ms == generator.methods
            type == generator.structure.name
            ops == <<"Create", "Select", "Update", "Delete">>
        IN  /\ Len(ms) = 4
            /\ \A k \in 1..4 : ms[k].name = type \o ops[k]
            /\ generator.data
                 = Join(<<header,
                          "",
                          "import (",
                          "\t\"context\"",
                          "\t\"fmt\"",
                          ")",
                          "",
                          "// " \o type
                              \o "Manager interface to interact with database",
                          "type " \o type \o "Manager interface {">>
                        \o [k \in 1..4 |-> "\t" \o Signature(ms[k])]
                        \o <<"}", "">>
                        \o [k \in 1..4 |->
                              Join(<<ms[k].comment,
                                     "func (p *PostgresRepository) "
                                         \o Signature(ms[k]) \o "{",
                                     ms[k].body,
                                     "}",
                                     "">>, "\n")]
                        \o <<"">>,
                        "\n")

\* A file has been rendered and written.
C5_Witness ==
    /\ pc = "generate"
    /\ Len(writes) >= 1
    /\ writes[Len(writes)].ok
    /\ writes[Len(writes)].data = generator.data
    /\ Len(generator.data) > Len(header)

IsTypeDecl(v) == v.node = "GenDecl" /\ v.tok = "type"

\* A type declaration main cannot turn into a Structure: an empty group, a
\* first spec that is no struct type, or a field of it whose type is neither
\* an identifier nor a selector.  The first spec of a group is the type
\* declaration main reads (line 81); a later spec of the group is never
\* looked at, whatever its shape.
IllShaped(v) ==
    /\ IsTypeDecl(v)
    /\ \/ Len(v.specs) = 0
       \/ v.specs[1].typeKind # "StructType"
       \/ \E k \in 1..Len(v.specs[1].fields) :
              v.specs[1].fields[k].typeKind \notin {"Ident", "SelectorExpr"}

HasIllShaped == \E d \in 1..Len(decls) : IllShaped(decls[d])

\* The position of the first ill-shaped declaration of the file.
FirstIllShaped ==
    CHOOSE d \in 1..Len(decls) :
        /\ IllShaped(decls[d])
        /\ \A e \in 1..(d - 1) : ~IllShaped(decls[e])

\* With an ill-shaped declaration in the file, a run never gets past it,
\* never reaches the generation loop or a normal return, and no file is
\* written in any run.
NoPartialGeneration ==
    HasIllShaped =>
        /\ pc \notin {"generate", "done"}
        /\ pc = "scan" => i <= FirstIllShaped
        /\ generator = NoGenerator
        /\ files = <<>>
        /\ writes = <<>>

\* The step main takes at an ill-shaped declaration is the abort: it ends
\* in the panic, with the structures extracted before it discarded unwritten.
AbortsAtIllShaped ==
    (pc = "scan" /\ i <= Len(decls) /\ IllShaped(decls[i])) =>
        (pc' = "panic" /\ fault' \notin {"none", "parse", "print", "write"}
         /\ i' = i /\ files' = <<>> /\ writes' = <<>>)

\* C6: when any declaration of the file is ill-shaped, the run aborts (at
\* that declaration if not before it) and no file is ever written, not even
\* for a well-formed structure declared before the offending one: every
\* declaration is extracted before the first write.
C6_NoPartialGeneration ==
    /\ []NoPartialGeneration
    /\ [][AbortsAtIllShaped]_vars

\* The run stopped at an ill-shaped declaration after a well-formed
\* structure had been extracted.
C6_Witness ==
    /\ pc = "panic"
    /\ fault \in {"specIndex", "structType", "fieldType"}
    /\ IllShaped(decls[i])
    /\ Len(structures) >= 1

\* The writes of the current run, in order.
ThisRun(w) == w.run = run

CurrentWrites == SelectSeq(writes, ThisRun)

\* C7: the k-th write of a run is that of the k-th structure, made after the
\* writes before it succeeded; a failed write is the last of its run and
\* leaves the run stopped; a run stopped by any earlier error (the parse,
\* the print of the tree, the scan) has attempted no write; the file of
\* every write that succeeded is still there, with that content unless a
\* later write went to the same path.
C7_SequentialFailFast ==
    LET cur == CurrentWrites
    IN  /\ Len(cur) <= Len(structures)
        /\ Len(cur) > 0 => pc \in {"generate", "done", "panic"}
        /\ (pc = "panic" /\ fault # "write") => cur = <<>>
        /\ pc = "generate" => Len(cur) = i - 1
        /\ pc = "done" => Len(cur) = Len(structures)
        /\ \A k \in 1..Len(cur) :
               /\ cur[k].idx = k
               /\ cur[k].structure = structures[k]
               /\ k < Len(cur) => cur[k].ok
               /\ ~cur[k].ok => (pc = "panic" /\ fault = "write")
        /\ \A k \in 1..Len(writes) :
               writes[k].ok =>
                   /\ writes[k].path \in DOMAIN files
                   /\ (\A m \in (k + 1)..Len(writes) :
                           writes[m].path # writes[k].path)
                          => files[writes[k].path] = writes[k].data

\* The second write of a run failed after the first succeeded, and a third
\* structure was never generated.
C7_Witness ==
    /\ pc = "panic"
    /\ fault = "write"
    /\ Len(CurrentWrites) = 2
    /\ CurrentWrites[1].ok
    /\ Len(structures) = 3
    /\ CurrentWrites[1].path \in DOMAIN files

\* The four methods of a structure, from the structure alone.
MethodsOf(s) ==
    <<generateCreate(s), generateSelect(s), generateUpdate(s),
      generateDelete(s)>>

\* One method as the file shows it.
Implementation(m) ==
    m.comment \o "\n"
    \o "func (p *PostgresRepository) " \o Signature(m) \o "{\n"
    \o m.body \o "\n}\n\n"

\* The text of the file of a structure, written down from the structure
\* alone: no Generator, no buffer, nothing of the run enters it.
TextOf(s) ==
    LET ms == MethodsOf(s)
    IN  header \o "\n\n"
        \o "import (\n\t\"context\"\n\t\"fmt\"\n)\n\n"
        \o "// " \o s.name \o "Manager interface to interact with database\n"
        \o "type " \o s.name \o "Manager interface {\n"
        \o Join([k \in 1..4 |-> "\t" \o Signature(ms[k]) \o "\n"], "")
        \o "}\n\n"
        \o Join([k \in 1..4 |-> Implementation(ms[k])], "")

PathOf(s) == "repository/" \o s.name \o "_repository.go"

\* C8: whatever the run and whatever was generated before, the text handed
\* to os.WriteFile for a structure is TextOf of that structure, a function
\* of it alone; the Generator that rendered it holds the header, the two
\* imports and the four methods of that structure and nothing left over
\* from the structure before; equal structures are written with equal
\* text; and the second run on the same file hands os.WriteFile, call by
\* call, the paths and bytes of the first.
C8_OutputDeterminedByStructure ==
    /\ \A a \in 1..Len(writes) :
           /\ writes[a].data = TextOf(writes[a].structure)
           /\ writes[a].path = PathOf(writes[a].structure)
    /\ generator # NoGenerator =>
           /\ generator.header = header
           /\ generator.imports = <<"context", "fmt">>
           /\ generator.methods = MethodsOf(generator.structure)
           /\ generator.data = TextOf(generator.structure)
    /\ \A a, b \in 1..Len(writes) :
           /\ writes[a].structure = writes[b].structure
                  => writes[a].data = writes[b].data
           /\ (writes[a].run = 1 /\ writes[b].run = 2
               /\ writes[a].idx = writes[b].idx)
                  => /\ writes[a].path = writes[b].path
                     /\ writes[a].data = writes[b].data
    /\ \A a \in 1..Len(writes) :
           (/\ writes[a].ok
            /\ \A m \in (a + 1)..Len(writes) : writes[m].path # writes[a].path)
               => files[writes[a].path] = TextOf(writes[a].structure)

\* The same structure was generated first in the first run and, after a
\* different structure, third in the second run.
C8_Witness ==
    \E a, b \in 1..Len(writes) :
        /\ writes[a].structure = writes[b].structure
        /\ writes[a].run = 1 /\ writes[a].idx = 1
        /\ writes[b].run = 2 /\ writes[b].idx = 3
        /\ \E c \in 1..Len(writes) :
               /\ writes[c].run = 2 /\ writes[c].idx = 2
               /\ writes[c].structure # writes[b].structure

\* The run panicked inside main's first loop, at declaration i.
ScanAborted == pc = "panic" /\ fault \notin {"parse", "print", "write"}

\* A struct type whose only defect is a tag with an odd number of tokens.
OddTagOnly(v) ==
    /\ IsTypeDecl(v)
    /\ ~IllShaped(v)
    /\ \A k \in 1..Len(v.specs[1].fields) :
           Len(v.specs[1].fields[k].names) > 0
    /\ \E k \in 1..Len(v.specs[1].fields) :
           Len(TagsArr(v.specs[1].fields[k])) % 2 = 1

\* C9: a tag with an odd number of tokens raises no error and does not stop
\* the run: the scan never ends at a declaration whose only defect it is.
C9_OddTagIsSilent ==
    \A d \in 1..Len(decls) :
        OddTagOnly(decls[d]) => ~(ScanAborted /\ i = d)

\* C10: a declaration that is no type declaration is skipped without error,
\* and once the scan is over there is one structure per type declaration, in
\* source order, taken from the first spec of its group.
C10_NonTypeDeclsSkipped ==
    /\ ScanAborted => IsTypeDecl(decls[i])
    /\ pc \in {"generate", "done"} =>
           LET IsType(v) == IsTypeDecl(v)
               groups == SelectSeq(decls, IsType)
           IN  /\ Len(structures) = Len(groups)
               /\ \A k \in 1..Len(groups) :
                      structures[k].name = groups[k].specs[1].name

====
